---- MODULE Spec2Model ----
(***************************************************************************)
(* A model of simple_com_server: one TCPServer (server.py) bridging a      *)
(* serial device to TCP clients.  Every action is the code one coroutine   *)
(* runs between two suspension points (await) of the asyncio event loop.   *)
(*                                                                         *)
(* Bytes are numbers 0..255, byte strings and str values are sequences.    *)
(***************************************************************************)
EXTENDS Naturals, Integers, Sequences, FiniteSets, TLC

\* ------------------------------------------------------------------ bounds

\* Client connections accepted by the listener over a run.
NumSessions == 3
\* Bytes the device emits over a run.
MaxDevBytes == 2
\* Bytes the device emits over a run of the delimiter-mode specification.
MaxDelimStream == 5
\* Longest delimiter string tried.
MaxDelimLen == 1

Sessions == 1..NumSessions
\* What reader.read(1024) returns to session s when it returns data: each
\* client sends its own byte, so a chunk or a reply in the wrong place shows.
Chunk(s) == <<64 + s>>
\* The n-th byte the device emits (n from 0): all different, so a dropped or
\* reordered byte shows.
DevByte(n) == 78 + n
\* Characters of the delimiters tried: LF and the ampersand.
DelimChars == {10, 38}
\* What the device can emit in the delimiter-mode specification: "&amp;" and LF.
DelimDevBytes == {10, 38, 97, 109, 112, 59}

\* Python's None for the delimiter (no character is negative).
None == <<0 - 1>>

VARIABLES
    server,     \* the TCP listener: "new", "listening", "closed", "failed"
    chan,       \* self.wserial: "none" (None), "open", "closed" (is_closing())
    delimiter,  \* self.delimiter: None or a string
    locked,     \* asyncio.Lock._locked of self._lock
    waiters,    \* asyncio.Lock._waiters: sessions suspended in acquire(), in order
    woken,      \* the waiters whose future release() has completed
    pc,         \* where each _client_connected_cb coroutine is suspended
    data,       \* the chunk of each session's latest reader.read(1024)
    reply,      \* the local 'reply' of each session's readall()
    rbuf,       \* bytes buffered in self.rserial, not yet read
    nemit,      \* bytes emitted by the device so far
    \* history, written by the actions and read only by the properties
    ret,        \* what each session's latest send_to_serial() returned
    how,        \* how its latest exchange ended: "none", "timeout", "found",
                \* "rerror" (device read failed), "rbusy" (reader in use), "werror"
    devw,       \* chunks that reached the device for the session's latest chunk
    sent,       \* replies written to the client for the session's latest chunk
    via,        \* why the session left its loop: "", "eof", "readerr", "exch", "lockerr"
    \* what the actions of one started TCPServer never change
    gone,       \* the clients that have dropped their connection during an exchange
    leaked,     \* serial handles still open that self.wserial no longer refers to
    main,       \* com_server: "gather" (awaiting the starts), "serving", "exited"
    peer,       \* a second TCPServer of the same com_server run, with one client
    device,     \* the com_path argument of __init__ (the --device string)
    built,      \* __init__: "no" (not run), "ok" (returned), "ValueError" (raised)
    com_path,   \* self.com_path
    extra_options   \* self._extra_options: key -> value (an int or a str)

vars == <<server, chan, delimiter, locked, waiters, woken, pc, data, reply, rbuf,
          nemit, ret, how, devw, sent, via, gone, leaked, main, peer,
          device, built, com_path, extra_options>>

lockVars == <<locked, waiters, woken>>
histVars == <<ret, how, devw, sent, via>>
parseVars == <<device, built, com_path, extra_options>>
others == <<delimiter, gone, leaked, main, peer, parseVars>>

\* ----------------------------------------------------------------- helpers

\* The sequence q without its element x.
Without(q, x) == SelectSeq(q, LAMBDA y : y # x)

\* The states of a session between 'async with self._lock' entry and exit.
InWith == {"readall", "innerclose"}

\* A release() that unlocks and wakes nobody.
WokenNobody == woken

\* asyncio.Lock.release() on a locked lock: unlock and complete the first
\* waiter's future (_wake_up_first); the waiter stays queued until it runs.
WokenAfterRelease == IF waiters # <<>> THEN woken \cup {Head(waiters)} ELSE woken

\* The callback of session s returns when its step ends in "done": its
\* locals are gone and its history is dropped; otherwise both are kept.
ReturnOrStay(s) ==
    IF pc'[s] = "done"
    THEN /\ data' = [data EXCEPT ![s] = <<>>]
         /\ reply' = [reply EXCEPT ![s] = <<>>]
         /\ ret' = [ret EXCEPT ![s] = <<>>]
         /\ how' = [how EXCEPT ![s] = "none"]
         /\ devw' = [devw EXCEPT ![s] = <<>>]
         /\ sent' = [sent EXCEPT ![s] = <<>>]
         /\ via' = [via EXCEPT ![s] = ""]
    ELSE UNCHANGED <<data, reply, ret, how, devw, sent, via>>

\* ---------------------------------------------------------------- __init__

\* Characters and strings of the device strings tried (str values are
\* sequences of code points).
Comma == 44
Equals == 61
DevicePath == <<47, 100>>
Baudrate == <<98, 97, 117, 100, 114, 97, 116, 101>>
Stopbits == <<115, 116, 111, 112, 98, 105, 116, 115>>
Parity == <<112, 97, 114, 105, 116, 121>>
OptionKeys == {Baudrate, Stopbits, Parity}
OptionValues == {<<57, 54>>, <<78>>, Baudrate}

\* An int or a str as a dict value.
IntValue(n) == [type |-> "int", num |-> n, text |-> <<>>]
StrValue(str) == [type |-> "str", num |-> 0, text |-> str]

\* The empty dict.
EmptyOptions == [k \in {} |-> StrValue(<<>>)]

\* 'c in str' for a character c.
Contains(str, c) == \E i \in 1..Len(str) : str[i] = c

\* str.split(c) for a one-character separator: the pieces between separators.
RECURSIVE Split(_, _)
Split(str, c) ==
    IF ~Contains(str, c) THEN <<str>>
    ELSE LET i == CHOOSE j \in 1..Len(str) :
                      str[j] = c /\ \A k \in 1..(j - 1) : str[k] # c
         IN  <<SubSeq(str, 1, i - 1)>> \o Split(SubSeq(str, i + 1, Len(str)), c)

\* int(str) succeeds on a non-empty string of decimal digits (the strings
\* tried hold no sign, blank or underscore); it raises ValueError otherwise.
IsDecimal(str) == str # <<>> /\ \A i \in 1..Len(str) : str[i] \in 48..57

RECURSIVE ParseInt(_)
ParseInt(str) ==
    IF str = <<>> THEN 0
    ELSE 10 * ParseInt(SubSeq(str, 1, Len(str) - 1)) + (str[Len(str)] - 48)

\* Lines 63-67, the loop over the options: opts is the dict so far.  The
\* result is the final dict, or raised when 'key, value = o.split("=")' does
\* not unpack into two or int(value) raises.  Line 65 tests the VALUE against
\* the names "baudrate" and "stopbits".
RECURSIVE ParseOptions(_, _)
ParseOptions(other, opts) ==
    IF other = <<>> THEN [raised |-> FALSE, options |-> opts]
    ELSE LET kv == Split(Head(other), Equals) IN
         IF Len(kv) # 2 THEN [raised |-> TRUE, options |-> opts]
         ELSE LET key == kv[1]
                  value == kv[2]
              IN  IF value \in {Baudrate, Baudrate, Stopbits}
                  THEN IF ~IsDecimal(value)
                       THEN [raised |-> TRUE, options |-> opts]
                       ELSE ParseOptions(Tail(other),
                                [k \in DOMAIN opts \cup {key} |->
                                    IF k = key THEN IntValue(ParseInt(value)) ELSE opts[k]])
                  ELSE ParseOptions(Tail(other),
                           [k \in DOMAIN opts \cup {key} |->
                               IF k = key THEN StrValue(value) ELSE opts[k]])

\* Lines 57-67: what __init__ makes of the device string.
ParseDevice(str) ==
    IF ~Contains(str, Comma)
    THEN [raised |-> FALSE, com_path |-> str, options |-> EmptyOptions]
    ELSE LET parts == Split(str, Comma)
             parsed == ParseOptions(Tail(parts), EmptyOptions)
         IN  [raised |-> parsed.raised, com_path |-> Head(parts), options |-> parsed.options]

\* ------------------------------------------------------------------- Init

\* A TCPServer as __init__ leaves it: no listener, no serial handle.
NewPeer == [server |-> "new", chan |-> "none", locked |-> FALSE, pc |-> "idle"]

\* Before com_server has started anything and before any client is connected.
InitOthers ==
    /\ gone = [s \in Sessions |-> FALSE]
    /\ leaked = 0
    /\ main = "gather"
    /\ peer = NewPeer

\* The TCPServer is constructed from a device string that is a bare path.
InitDevice ==
    /\ device = DevicePath
    /\ built = "ok"
    /\ com_path = ParseDevice(DevicePath).com_path
    /\ extra_options = ParseDevice(DevicePath).options

Init ==
    /\ InitDevice
    /\ InitOthers
    /\ server = "new"
    /\ chan = "none"
    /\ delimiter = None
    /\ locked = FALSE
    /\ waiters = <<>>
    /\ woken = {}
    /\ pc = [s \in Sessions |-> "idle"]
    /\ data = [s \in Sessions |-> <<>>]
    /\ reply = [s \in Sessions |-> <<>>]
    /\ rbuf = <<>>
    /\ nemit = 0
    /\ ret = [s \in Sessions |-> <<>>]
    /\ how = [s \in Sessions |-> "none"]
    /\ devw = [s \in Sessions |-> <<>>]
    /\ sent = [s \in Sessions |-> <<>>]
    /\ via = [s \in Sessions |-> ""]

\* -------------------------------------------------------------- lifecycle

\* start(): asyncio.start_server, then start_serial() opens the device.
\* open_serial_connection does not suspend, so no client is served between.
Start ==
    /\ server = "new"
    /\ server' = "listening"
    /\ chan' = "open"
    /\ UNCHANGED <<others, lockVars, pc, data, reply, rbuf, nemit, histVars>>

\* start() when the device cannot be opened: the listener is up, start_serial
\* raises out of start() and of asyncio.gather in com_server, which ends the run.
StartFail ==
    /\ server = "new"
    /\ server' = "failed"
    /\ UNCHANGED <<chan, others, lockVars, pc, data, reply, rbuf, nemit, histVars>>

\* stop(): self.server.close() stops the listener; 'await self.server' then
\* raises TypeError (an asyncio Server is not awaitable), so the lines that
\* close self.wserial are not reached.  Sessions in flight go on.
Stop ==
    /\ server = "listening"
    /\ server' = "closed"
    /\ UNCHANGED <<chan, others, lockVars, pc, data, reply, rbuf, nemit, histVars>>

\* ----------------------------------------------------------------- device

\* The device sends a byte; the serial transport feeds it to self.rserial.
DeviceEmitFrom(bytes, max) ==
    /\ chan = "open"
    /\ nemit < max
    /\ \E b \in bytes : rbuf' = Append(rbuf, b)
    /\ nemit' = nemit + 1
    /\ UNCHANGED <<server, chan, others, lockVars, pc, data, reply, histVars>>

DeviceEmit == DeviceEmitFrom({DevByte(nemit)}, MaxDevBytes)

\* A serial I/O error (device unplugged): the serial transport aborts, so
\* wserial.is_closing() becomes true, the reader holds the exception (every
\* read raises) and the writer's drain() raises.  Nothing reopens the device.
DeviceFail ==
    /\ chan = "open"
    /\ chan' = "closed"
    /\ UNCHANGED <<server, others, lockVars, pc, data, reply, rbuf, nemit, histVars>>

\* --------------------------------------------------------- send_to_serial

\* send_to_serial(data) up to its first suspension, run by session s that
\* has just taken the lock; w is devw with s's entry reset for this chunk.
\* Channel not open: 'self.start_serial()' only creates a coroutine that is
\* never awaited, so nothing is opened; write() on the closing transport
\* drops the data and drain() raises (AttributeError when wserial is None).
\* The exception leaves send_to_serial and is caught at line 198, which
\* closes the client writer and awaits wait_closed() inside the with block.
\* Channel open: the chunk is written, drain() returns, readall() starts.
SendToSerial(s, d, w) ==
    /\ reply' = [reply EXCEPT ![s] = <<>>]
    /\ ret' = [ret EXCEPT ![s] = <<>>]
    /\ chan' = chan
    /\ IF chan = "open"
       THEN /\ pc' = [pc EXCEPT ![s] = "readall"]
            /\ devw' = [w EXCEPT ![s] = Append(@, d)]
            /\ how' = [how EXCEPT ![s] = "none"]
            /\ via' = via
       ELSE /\ pc' = [pc EXCEPT ![s] = "innerclose"]
            /\ devw' = w
            /\ how' = [how EXCEPT ![s] = "werror"]
            /\ via' = [via EXCEPT ![s] = "exch"]

\* ---------------------------------------------------- _client_connected_cb

\* asyncio.start_server accepts a connection and starts the callback, which
\* runs to 'await reader.read(1024)'.  Sessions are numbered as accepted.
Connect(s) ==
    /\ server = "listening"
    /\ pc[s] = "idle"
    /\ \A t \in Sessions : t < s => pc[t] # "idle"
    /\ pc' = [pc EXCEPT ![s] = "read"]
    /\ UNCHANGED <<server, chan, others, lockVars, data, reply, rbuf, nemit, histVars>>

\* reader.read(1024) returns a non-empty chunk and the reader is not at EOF
\* (the client is still connected):
\* 'async with self._lock' acquires at once when the lock is free and nobody
\* waits (then send_to_serial runs to its first await), else queues a future.
ClientChunk(s) ==
    /\ pc[s] = "read"
    /\ ~gone[s]
    /\ LET d == Chunk(s) IN
        /\ data' = [data EXCEPT ![s] = d]
        /\ sent' = [sent EXCEPT ![s] = <<>>]
        /\ IF ~locked /\ waiters = <<>>
           THEN /\ locked' = TRUE
                /\ UNCHANGED <<waiters, woken>>
                /\ SendToSerial(s, d, [devw EXCEPT ![s] = <<>>])
           ELSE /\ waiters' = Append(waiters, s)
                /\ pc' = [pc EXCEPT ![s] = "waiting"]
                /\ devw' = [devw EXCEPT ![s] = <<>>]
                /\ UNCHANGED <<locked, woken, chan, reply, ret, how, via>>
    /\ UNCHANGED <<server, others, rbuf, nemit>>

\* reader.read(1024) returns b"", or returns data with reader.at_eof() true
\* (the client sent and closed): line 182 takes the EOF path either way, the
\* data is not forwarded; writer.close(), then 'await writer.wait_closed()'.
ClientEof(s) ==
    /\ pc[s] = "read"
    /\ \E d \in {Chunk(s), <<>>} : data' = [data EXCEPT ![s] = d]
    /\ devw' = [devw EXCEPT ![s] = <<>>]
    /\ sent' = [sent EXCEPT ![s] = <<>>]
    /\ pc' = [pc EXCEPT ![s] = "eofclose"]
    /\ via' = [via EXCEPT ![s] = "eof"]
    /\ UNCHANGED <<server, chan, others, lockVars, reply, rbuf, nemit, ret, how>>

\* reader.read(1024) raises (connection reset): the handler at line 203
\* calls writer.close() and awaits writer.wait_closed().
ClientReadError(s) ==
    /\ pc[s] = "read"
    /\ pc' = [pc EXCEPT ![s] = "handler"]
    /\ via' = [via EXCEPT ![s] = "readerr"]
    /\ UNCHANGED <<server, chan, others, lockVars, data, reply, rbuf, nemit,
                   ret, how, devw, sent>>

\* The EOF path's wait_closed() returns (the callback returns), or raises
\* (the flush of unsent reply bytes failed) into the handler at line 203,
\* which closes the writer again and awaits wait_closed().
EofClosed(s) ==
    /\ pc[s] = "eofclose"
    /\ \E ok \in BOOLEAN : pc' = [pc EXCEPT ![s] = IF ok THEN "done" ELSE "handler"]
    /\ ReturnOrStay(s)
    /\ UNCHANGED <<server, chan, others, lockVars, rbuf, nemit>>

\* Lines 211-213, after the handler's wait_closed() returned or raised (both
\* swallowed): 'if self._lock.locked(): self._lock.release()', whoever holds it.
HandlerFinish(s) ==
    /\ pc[s] = "handler"
    /\ pc' = [pc EXCEPT ![s] = "done"]
    /\ locked' = FALSE
    /\ woken' = IF locked THEN WokenAfterRelease ELSE woken
    /\ UNCHANGED waiters
    /\ ReturnOrStay(s)
    /\ UNCHANGED <<server, chan, others, rbuf, nemit>>

\* A waiter whose future was completed resumes in acquire(): it leaves the
\* queue, sets _locked = True unconditionally and enters the with block.
WakeUp(s) ==
    /\ pc[s] = "waiting"
    /\ s \in woken
    /\ waiters' = Without(waiters, s)
    /\ woken' = woken \ {s}
    /\ locked' = TRUE
    /\ SendToSerial(s, data[s], devw)
    /\ UNCHANGED <<server, others, data, rbuf, nemit, sent>>

\* ----------------------------------------------------------------- readall

\* html.escape(s) with quote=True: & < > " ' become &amp; &lt; &gt; &quot; &#x27;.
EscapeChar(c) ==
    CASE c = 38 -> <<38, 97, 109, 112, 59>>
      [] c = 60 -> <<38, 108, 116, 59>>
      [] c = 62 -> <<38, 103, 116, 59>>
      [] c = 34 -> <<38, 113, 117, 111, 116, 59>>
      [] c = 39 -> <<38, 35, 120, 50, 55, 59>>
      [] OTHER -> <<c>>

RECURSIVE HtmlEscape(_)
HtmlEscape(str) ==
    IF str = <<>> THEN <<>> ELSE EscapeChar(Head(str)) \o HtmlEscape(Tail(str))

\* str.encode(): UTF-8 of one code point (below 65536).
EncodeChar(c) ==
    IF c < 128 THEN <<c>>
    ELSE IF c < 2048 THEN <<192 + (c \div 64), 128 + (c % 64)>>
    ELSE <<224 + (c \div 4096), 128 + ((c \div 64) % 64), 128 + (c % 64)>>

RECURSIVE Utf8Encode(_)
Utf8Encode(str) ==
    IF str = <<>> THEN <<>> ELSE EncodeChar(Head(str)) \o Utf8Encode(Tail(str))

\* Where sep first occurs in buf (the index of its first byte), 0 when it does not.
Find(buf, sep) ==
    LET at == {i \in 1..(Len(buf) + 1 - Len(sep)) : SubSeq(buf, i, i + Len(sep) - 1) = sep}
    IN  IF at = {} THEN 0 ELSE CHOOSE i \in at : \A j \in at : i <= j

\* Line 118: the delimiter branch is taken for a delimiter that is neither None nor "".
DelimiterMode == delimiter # None /\ delimiter # <<>>

\* The separator readall hands to reader.readuntil (line 120).
Separator == Utf8Encode(HtmlEscape(delimiter))

\* What follows the return of send_to_serial(data) with reply r in session s,
\* lines 194-197 and the exit of the with block; wfail: the client socket is
\* broken, so 'await writer.drain()' raises.
\*  - r non-empty and drain() raises: line 198 catches, closes the writer and
\*    awaits wait_closed(), still inside the with block;
\*  - else the reply (if any) is written, __aexit__ calls release(): on a
\*    locked lock it unlocks and the loop reads again; on an unlocked lock it
\*    raises RuntimeError, caught at line 203 (close, await wait_closed()).
AfterExchange(s, r, wfail) ==
    /\ ret' = [ret EXCEPT ![s] = r]
    /\ IF r # <<>> /\ wfail
       THEN /\ pc' = [pc EXCEPT ![s] = "innerclose"]
            /\ via' = [via EXCEPT ![s] = "exch"]
            /\ UNCHANGED <<sent, lockVars>>
       ELSE /\ sent' = [sent EXCEPT ![s] = IF r # <<>> THEN Append(@, r) ELSE @]
            /\ IF locked
               THEN /\ locked' = FALSE
                    /\ woken' = WokenAfterRelease
                    /\ pc' = [pc EXCEPT ![s] = "read"]
                    /\ via' = via
               ELSE /\ locked' = FALSE
                    /\ woken' = woken
                    /\ pc' = [pc EXCEPT ![s] = "handler"]
                    /\ via' = [via EXCEPT ![s] = "lockerr"]
            /\ UNCHANGED waiters

\* Idle-timeout mode, line 135: readexactly(1) returns a buffered byte within
\* the timeout; it is appended and the next attempt starts.
ReadByte(s) ==
    /\ pc[s] = "readall"
    /\ ~DelimiterMode
    /\ chan = "open"
    /\ rbuf # <<>>
    /\ reply' = [reply EXCEPT ![s] = Append(@, Head(rbuf))]
    /\ rbuf' = Tail(rbuf)
    /\ UNCHANGED <<server, chan, others, lockVars, pc, data, nemit, histVars>>

\* Idle-timeout mode, lines 136-137: no byte came within the timeout
\* (asyncio.TimeoutError): readall returns what it accumulated.
ReadTimeout(s) ==
    /\ pc[s] = "readall"
    /\ ~DelimiterMode
    /\ chan = "open"
    /\ rbuf = <<>>
    /\ how' = [how EXCEPT ![s] = "timeout"]
    /\ \E wfail \in BOOLEAN : AfterExchange(s, reply[s], wfail)
    /\ UNCHANGED <<server, chan, others, data, reply, rbuf, nemit, devw>>

\* Idle-timeout mode, lines 138-143: readexactly(1) raises, because the
\* transport failed, or (RuntimeError) because another coroutine is already
\* waiting on the same reader; readall logs and returns b"".
ReadError(s) ==
    /\ pc[s] = "readall"
    /\ ~DelimiterMode
    /\ \/ chan = "closed"
       \/ rbuf = <<>> /\ \E t \in Sessions \ {s} : pc[t] = "readall"
    /\ how' = [how EXCEPT ![s] = IF chan = "closed" THEN "rerror" ELSE "rbusy"]
    /\ AfterExchange(s, <<>>, FALSE)
    /\ UNCHANGED <<server, chan, others, data, reply, rbuf, nemit, devw>>

\* Delimiter mode, line 120: readuntil(separator) returns once the separator
\* is in the buffer, with everything up to and including it.  No timeout.
ReadUntilFound(s) ==
    /\ pc[s] = "readall"
    /\ DelimiterMode
    /\ chan = "open"
    /\ Find(rbuf, Separator) > 0
    /\ LET n == Find(rbuf, Separator) + Len(Separator) - 1
       IN  /\ rbuf' = SubSeq(rbuf, n + 1, Len(rbuf))
           /\ \E wfail \in BOOLEAN : AfterExchange(s, SubSeq(rbuf, 1, n), wfail)
    /\ how' = [how EXCEPT ![s] = "found"]
    /\ UNCHANGED <<server, chan, others, data, reply, nemit, devw>>

\* Delimiter mode, lines 121-129: the stream ends or breaks before the
\* separator was seen (IncompleteReadError or another exception): b"".
ReadUntilError(s) ==
    /\ pc[s] = "readall"
    /\ DelimiterMode
    /\ chan = "closed"
    /\ how' = [how EXCEPT ![s] = "rerror"]
    /\ AfterExchange(s, <<>>, FALSE)
    /\ UNCHANGED <<server, chan, others, data, reply, rbuf, nemit, devw>>

\* InnerClosed with a lock taken by a bare acquire(): the 'return' at line
\* 202 leaves without releasing it.
InnerClosedNoRelease(s) ==
    /\ pc[s] = "innerclose"
    /\ \E ok \in BOOLEAN : pc' = [pc EXCEPT ![s] = IF ok THEN "done" ELSE "handler"]
    /\ UNCHANGED lockVars
    /\ ReturnOrStay(s)
    /\ UNCHANGED <<server, chan, others, rbuf, nemit>>

\* The wait_closed() awaited at line 201 returns, and 'return' leaves the
\* with block; or it raises, and the exception leaves the with block.  Either
\* way __aexit__ calls release(), which raises RuntimeError if the lock is not
\* locked.  Any exception lands in the handler at line 203.
InnerClosed(s) ==
    /\ pc[s] = "innerclose"
    /\ \E ok \in BOOLEAN :
        pc' = [pc EXCEPT ![s] = IF ok /\ locked THEN "done" ELSE "handler"]
    /\ locked' = FALSE
    /\ woken' = IF locked THEN WokenAfterRelease ELSE woken
    /\ UNCHANGED waiters
    /\ ReturnOrStay(s)
    /\ UNCHANGED <<server, chan, others, rbuf, nemit>>

\* ------------------------------------------------------------------ specs

SessionStep(s) ==
    \/ Connect(s)
    \/ ClientChunk(s)
    \/ ClientEof(s)
    \/ ClientReadError(s)
    \/ EofClosed(s)
    \/ HandlerFinish(s)
    \/ WakeUp(s)
    \/ ReadByte(s)
    \/ ReadTimeout(s)
    \/ ReadError(s)
    \/ InnerClosed(s)

Next ==
    \/ Start
    \/ StartFail
    \/ Stop
    \/ DeviceEmit
    \/ DeviceFail
    \/ \E s \in Sessions : SessionStep(s)

\* The program as com_server runs it: no delimiter, idle-timeout mode.
Spec == Init /\ [][Next]_vars

\* The event loop runs every coroutine that is ready: each session's steps
\* are weakly fair.  The device emits finitely many bytes, so every read
\* attempt of a running exchange ends (a byte, a timeout or an error).
\* The runs of a bridge that is neither stopped nor loses its device.
NextFair ==
    \/ Start
    \/ DeviceEmit
    \/ \E s \in Sessions : SessionStep(s)

SpecFair == Init /\ [][NextFair]_vars /\ \A s \in Sessions : WF_vars(SessionStep(s))

\* readall() of a TCPServer constructed with a delimiter string (the fourth
\* parameter of __init__): the server is started, the first client has sent a
\* chunk, the chunk is written and readall() waits for the device.
Delimiters == UNION {[1..k -> DelimChars] : k \in 0..MaxDelimLen}

InitDelim ==
    /\ InitDevice
    /\ InitOthers
    /\ server = "listening"
    /\ chan = "open"
    /\ delimiter \in Delimiters
    /\ locked = TRUE
    /\ waiters = <<>>
    /\ woken = {}
    /\ pc = [s \in Sessions |-> IF s = 1 THEN "readall" ELSE "idle"]
    /\ data = [s \in Sessions |-> IF s = 1 THEN Chunk(1) ELSE <<>>]
    /\ reply = [s \in Sessions |-> <<>>]
    /\ rbuf = <<>>
    /\ nemit = 0
    /\ ret = [s \in Sessions |-> <<>>]
    /\ how = [s \in Sessions |-> "none"]
    /\ devw = [s \in Sessions |-> IF s = 1 THEN <<Chunk(1)>> ELSE <<>>]
    /\ sent = [s \in Sessions |-> <<>>]
    /\ via = [s \in Sessions |-> ""]

DelimDeviceEmit == DeviceEmitFrom(DelimDevBytes, MaxDelimStream)

NextDelim ==
    \/ DelimDeviceEmit
    \/ DeviceFail
    \/ ReadByte(1)
    \/ ReadTimeout(1)
    \/ ReadError(1)
    \/ ReadUntilFound(1)
    \/ ReadUntilError(1)

SpecDelim == InitDelim /\ [][NextDelim]_vars

\* ------------------------------------------------- com_server (two bridges)

\* Sessions that connect in the two-bridge runs and in the restart runs.
NumGroupSessions == 2
GroupSessions == 1..NumGroupSessions

\* Everything that belongs to the first TCPServer and its clients.
bridgeVars == <<server, chan, delimiter, locked, waiters, woken, pc, data, reply,
                rbuf, nemit, ret, how, devw, sent, via, gone, leaked, parseVars>>

\* The second TCPServer built by com_server (lines 53-57): it has its own
\* listener, its own self._lock (line 76) and its own rserial/wserial (lines
\* 73-74).  Its one client follows _client_connected_cb on an open device.

\* peer.start(): the listener, then start_serial() opens its device.
PeerStart ==
    /\ peer.server = "new"
    /\ peer' = [peer EXCEPT !.server = "listening", !.chan = "open"]
    /\ UNCHANGED <<bridgeVars, main>>

\* peer.start() raises: the port is in use or the device cannot be opened.
PeerStartFail ==
    /\ peer.server = "new"
    /\ peer' = [peer EXCEPT !.server = "failed"]
    /\ UNCHANGED <<bridgeVars, main>>

\* The peer accepts its client: the callback runs to 'await reader.read(1024)'.
PeerConnect ==
    /\ peer.server = "listening"
    /\ peer.pc = "idle"
    /\ peer' = [peer EXCEPT !.pc = "read"]
    /\ UNCHANGED <<bridgeVars, main>>

\* PeerChunk with one lock shared by all TCPServer instances (a class-level
\* _lock): the peer's client takes the lock the first bridge's sessions use.
PeerChunkSharedLock ==
    /\ peer.pc = "read"
    /\ ~locked /\ waiters = <<>>
    /\ peer.chan = "open"
    /\ locked' = TRUE
    /\ peer' = [peer EXCEPT !.locked = TRUE, !.pc = "readall"]
    /\ UNCHANGED <<server, chan, delimiter, waiters, woken, pc, data, reply, rbuf,
                   nemit, ret, how, devw, sent, via, gone, leaked, main, parseVars>>

\* The peer's client sends a chunk: 'async with self._lock' takes the peer's
\* own lock (free: it has one client), send_to_serial writes and readall waits.
PeerChunk ==
    /\ peer.pc = "read"
    /\ ~peer.locked
    /\ peer.chan = "open"
    /\ peer' = [peer EXCEPT !.locked = TRUE, !.pc = "readall"]
    /\ UNCHANGED <<bridgeVars, main>>

\* The peer's readall times out: the reply is written, the lock released and
\* the loop reads again.  A silent or wedged device is this step not taken.
PeerReadTimeout ==
    /\ peer.pc = "readall"
    /\ peer' = [peer EXCEPT !.locked = FALSE, !.pc = "read"]
    /\ UNCHANGED <<bridgeVars, main>>

\* The peer's client closes: EOF path, the callback returns.
PeerEof ==
    /\ peer.pc = "read"
    /\ peer' = [peer EXCEPT !.pc = "done"]
    /\ UNCHANGED <<bridgeVars, main>>

\* com_server, lines 51-62: asyncio.gather of the start() coroutines returned
\* (all started), so 'await servers[0].server.serve_forever()' is reached.
MainServe ==
    /\ main = "gather"
    /\ server = "listening"
    /\ peer.server = "listening"
    /\ main' = "serving"
    /\ UNCHANGED <<bridgeVars, peer>>

\* com_server, line 51: gather is called without return_exceptions and inside
\* no try: the first start() that raises makes 'await asyncio.gather(...)'
\* raise.  The start() tasks all run before com_server is resumed, so every
\* start has been attempted by then.  The exception leaves com_server, the
\* event loop stops and the process ends: listeners, serial handles and
\* sessions of every bridge are gone.
MainRaise ==
    /\ main = "gather"
    /\ server # "new" /\ peer.server # "new"
    /\ server = "failed" \/ peer.server = "failed"
    /\ main' = "exited"
    /\ server' = IF server = "listening" THEN "closed" ELSE server
    /\ chan' = IF chan = "open" THEN "closed" ELSE chan
    /\ peer' = [server |-> IF peer.server = "listening" THEN "closed" ELSE peer.server,
                chan |-> IF peer.chan = "open" THEN "closed" ELSE peer.chan,
                locked |-> FALSE,
                pc |-> IF peer.pc = "idle" THEN "idle" ELSE "done"]
    /\ locked' = FALSE
    /\ waiters' = <<>>
    /\ woken' = {}
    /\ pc' = [s \in Sessions |-> IF pc[s] = "idle" THEN "idle" ELSE "done"]
    /\ data' = [s \in Sessions |-> <<>>]
    /\ reply' = [s \in Sessions |-> <<>>]
    /\ ret' = [s \in Sessions |-> <<>>]
    /\ how' = [s \in Sessions |-> "none"]
    /\ devw' = [s \in Sessions |-> <<>>]
    /\ sent' = [s \in Sessions |-> <<>>]
    /\ via' = [s \in Sessions |-> ""]
    /\ UNCHANGED <<delimiter, rbuf, nemit, gone, leaked, parseVars>>

NextGroup ==
    \/ Start
    \/ StartFail
    \/ DeviceEmit
    \/ DeviceFail
    \/ \E s \in GroupSessions : SessionStep(s)
    \/ PeerStart
    \/ PeerStartFail
    \/ PeerConnect
    \/ PeerChunk
    \/ PeerReadTimeout
    \/ PeerEof
    \/ MainServe
    \/ MainRaise

\* Two TCPServers started together by com_server.
SpecGroup == Init /\ [][NextGroup]_vars

\* --------------------------------------------------- __init__ (device string)

\* Most options in a device string tried.
MaxOptions == 2

\* The options tried: key=value for every key and value, an option without
\* '=' and one with two.
OptionStrings ==
    {k \o <<Equals>> \o v : k \in OptionKeys, v \in OptionValues}
        \cup {Parity, Parity \o <<Equals, 78, Equals, 78>>}

RECURSIVE JoinOptions(_)
JoinOptions(list) ==
    IF list = <<>> THEN <<>> ELSE <<Comma>> \o Head(list) \o JoinOptions(Tail(list))

\* The device strings tried: the path, then up to MaxOptions options.
Devices ==
    {DevicePath \o JoinOptions(list) :
        list \in UNION {[1..n -> OptionStrings] : n \in 0..MaxOptions}}

InitParse ==
    /\ InitOthers
    /\ device \in Devices
    /\ built = "no"
    /\ com_path = <<>>
    /\ extra_options = EmptyOptions
    /\ server = "new"
    /\ chan = "none"
    /\ delimiter = None
    /\ locked = FALSE
    /\ waiters = <<>>
    /\ woken = {}
    /\ pc = [s \in Sessions |-> "idle"]
    /\ data = [s \in Sessions |-> <<>>]
    /\ reply = [s \in Sessions |-> <<>>]
    /\ rbuf = <<>>
    /\ nemit = 0
    /\ ret = [s \in Sessions |-> <<>>]
    /\ how = [s \in Sessions |-> "none"]
    /\ devw = [s \in Sessions |-> <<>>]
    /\ sent = [s \in Sessions |-> <<>>]
    /\ via = [s \in Sessions |-> ""]

\* TCPServer(device, port): lines 57-67 run; an exception leaves no object.
Construct ==
    /\ built = "no"
    /\ LET r == ParseDevice(device) IN
        /\ built' = IF r.raised THEN "ValueError" ELSE "ok"
        /\ com_path' = IF r.raised THEN com_path ELSE r.com_path
        /\ extra_options' = IF r.raised THEN extra_options ELSE r.options
    /\ UNCHANGED <<device, server, chan, delimiter, lockVars, pc, data, reply, rbuf,
                   nemit, histVars, gone, leaked, main, peer>>

NextParse == Construct

\* The constructor applied to every device string tried.
SpecParse == InitParse /\ [][NextParse]_vars

\* ------------------------------------------------- start() after a stop()

\* start() on a server that was started and stopped: the listener is created
\* again, then start_serial() finds self.wserial set (lines 104-107), calls
\* close() and suspends in 'await self.wserial.wait_closed()', which returns
\* once the transport has closed the serial handle.
\* ("restarting": listening, with start() suspended inside start_serial.)
RestartNoClose ==
    /\ server = "closed"
    /\ chan # "none"
    /\ server' = "restarting"
    /\ UNCHANGED <<chan, others, lockVars, pc, data, reply, rbuf, nemit, histVars>>

Restart ==
    /\ server = "closed"
    /\ chan # "none"
    /\ server' = "restarting"
    /\ chan' = "closed"
    /\ UNCHANGED <<others, lockVars, pc, data, reply, rbuf, nemit, histVars>>

\* Lines 109-111 after wait_closed() returned: open_serial_connection opens a
\* new handle and self.rserial, self.wserial are rebound to it (a new, empty
\* reader).  A handle the old self.wserial still held open would be orphaned.
\* The readers of the closed handle were woken with EOF before wait_closed()
\* returned: their sessions have left readall.
RestartOpen ==
    /\ server = "restarting"
    /\ \A s \in Sessions : pc[s] # "readall"
    /\ server' = "listening"
    /\ chan' = "open"
    /\ leaked' = IF chan = "open" THEN leaked + 1 ELSE leaked
    /\ rbuf' = <<>>
    /\ UNCHANGED <<delimiter, gone, main, peer, parseVars, lockVars, pc, data, reply,
                   nemit, histVars>>

\* Line 109 raises: the device cannot be opened again; start() raises.
RestartOpenFail ==
    /\ server = "restarting"
    /\ server' = "failed"
    /\ UNCHANGED <<chan, others, lockVars, pc, data, reply, rbuf, nemit, histVars>>

NextRestart ==
    \/ Start
    \/ Stop
    \/ Restart
    \/ RestartOpen
    \/ RestartOpenFail
    \/ DeviceEmit
    \/ DeviceFail
    \/ \E s \in GroupSessions : SessionStep(s)

\* A TCPServer that is started, stopped and started again, with its clients.
SpecRestart == Init /\ [][NextRestart]_vars

\* ------------------------------------------- disconnects and late replies

\* The n-th byte of the device when it comes while no exchange is running:
\* the answer to a request whose exchange has already returned.
LateByte(n) == 110 + n

\* The client of session s drops its connection while the session is
\* suspended in acquire() or inside send_to_serial.  Nothing awaits the
\* client's socket there (lines 191-193): no coroutine runs, the session
\* finds out at its next write or read.
ClientGoneCancels(s) ==
    /\ pc[s] \in {"waiting", "readall"}
    /\ ~gone[s]
    /\ gone' = [gone EXCEPT ![s] = TRUE]
    /\ pc' = [pc EXCEPT ![s] = "handler"]
    /\ waiters' = Without(waiters, s)
    /\ woken' = woken \ {s}
    /\ UNCHANGED <<server, chan, delimiter, leaked, main, peer, parseVars, locked,
                   data, reply, rbuf, nemit, histVars>>

ClientGone(s) ==
    /\ pc[s] \in {"waiting", "readall"}
    /\ ~gone[s]
    /\ gone' = [gone EXCEPT ![s] = TRUE]
    /\ UNCHANGED <<server, chan, delimiter, leaked, main, peer, parseVars, lockVars,
                   pc, data, reply, rbuf, nemit, histVars>>

\* The device sends a byte, marked by whether an exchange is running.
LateDeviceEmit ==
    DeviceEmitFrom({IF \E s \in Sessions : pc[s] = "readall"
                    THEN DevByte(nemit) ELSE LateByte(nemit)}, MaxDevBytes)

NextLate ==
    \/ Start
    \/ LateDeviceEmit
    \/ DeviceFail
    \/ \E s \in GroupSessions : ClientGone(s)
    \/ \E s \in GroupSessions : SessionStep(s)

\* A bridge whose clients may drop out during an exchange and whose device
\* may answer late.
SpecLate == Init /\ [][NextLate]_vars

\* ----------------------------------------------------------------- claims

\* C1 (mutual exclusion): in every reachable state at most one session is
\* inside send_to_serial, between its write to the device and the return of
\* readall.
C1_MutualExclusion ==
    Cardinality({s \in Sessions : pc[s] = "readall"}) <= 1

\* C2 (release discipline): the lock is released only by a session that
\* leaves its own 'async with' block, and every session that leaves its block
\* releases a lock that is held at that moment: one release per acquire, never
\* a release by a session that has released already or has never acquired.
C2_ReleaseDiscipline ==
    [][/\ (locked /\ ~locked') =>
            \E s \in Sessions : pc[s] \in InWith /\ pc'[s] \notin InWith
       /\ \A s \in Sessions :
            (pc[s] \in InWith /\ pc'[s] \notin InWith) => (locked /\ ~locked')
      ]_vars

\* C3 (client EOF): no step of a session on its EOF path (from the read that
\* yields zero bytes or EOF to the return of the callback) changes the lock.
C3_EofLeavesLock ==
    [][\A s \in Sessions :
          ((via[s] = "eof" \/ via'[s] = "eof") /\ pc'[s] # pc[s])
              => UNCHANGED <<locked, waiters, woken>>
      ]_vars

\* C4 (reconnect): a session that enters send_to_serial while the serial
\* channel is not open finds it reopened before the write, so its chunk
\* reaches the device and readall starts.
C4_ReopenBeforeWrite ==
    [][\A s \in Sessions :
          (pc[s] \notin InWith /\ pc'[s] \in InWith /\ chan # "open")
              => (chan' = "open" /\ pc'[s] = "readall" /\ devw'[s] = <<data'[s]>>)
      ]_vars

\* C5 (close on I/O failure): an exchange whose device write or device read
\* failed has closed the serial channel and has raised to its caller; it has
\* not returned a normal reply.
C5_FailureClosesAndRaises ==
    \A s \in Sessions :
        how[s] \in {"rerror", "werror"} => (chan = "closed" /\ via[s] = "exch")

\* C6 (session outcome): when an exchange ends on a device read or write
\* failure the session closes its client socket and terminates; when it ends
\* on a clean idle timeout (and the reply is written) the session reads the
\* next chunk; a failed client read closes the socket and terminates too.
C6_SessionOutcome ==
    [][\A s \in Sessions :
          /\ (pc[s] \notin InWith /\ pc'[s] \in InWith /\ how'[s] = "werror")
                => pc'[s] \in {"innerclose", "handler", "done"}
          /\ (pc[s] = "readall" /\ pc'[s] # "readall" /\ how'[s] = "rerror")
                => pc'[s] \in {"innerclose", "handler", "done"}
          /\ (pc[s] = "readall" /\ pc'[s] # "readall" /\ how'[s] = "timeout"
                /\ via'[s] # "exch")
                => pc'[s] = "read"
          /\ (pc[s] = "read" /\ via'[s] = "readerr")
                => pc'[s] \in {"handler", "done"}
      ]_vars

\* C7 (error isolation): no session is thrown out of its loop by an exception
\* it did not cause: the release at the exit of its with block never raises
\* because another session's error handler has released the lock; and no
\* session step changes the listener.
C7_ErrorIsolation ==
    \A s \in Sessions : via[s] # "lockerr"

\* C8 (idle-timeout accumulation): without a delimiter, a readall that
\* returns (rather than raises into the handler at line 198) returns only at
\* a read attempt that timed out (no byte buffered, channel open), and it
\* returns exactly the bytes accumulated up to then.
C8_IdleAccumulation ==
    [][\A s \in Sessions :
          (/\ ~DelimiterMode
           /\ pc[s] = "readall" /\ pc'[s] # "readall"
           /\ ~(how'[s] \in {"rerror", "rbusy"} /\ pc'[s] = "innerclose"))
              => (how'[s] = "timeout" /\ rbuf = <<>> /\ ret'[s] = reply[s])
      ]_vars

\* The literal delimiter as bytes, and the reply that ends with its first
\* occurrence in buf (b"" when there is none).
Literal == Utf8Encode(delimiter)

UpToLiteral(buf) ==
    IF Find(buf, Literal) = 0 THEN <<>>
    ELSE SubSeq(buf, 1, Find(buf, Literal) + Len(Literal) - 1)

\* C9 (delimiter mode): with a non-empty delimiter, a readall that returns
\* because the delimiter was seen returns everything read up to and including
\* the first occurrence of the literal delimiter bytes, for every delimiter;
\* a readall that ends because the stream ended returns b"".
C9_DelimiterMode ==
    [][\A s \in Sessions :
          (DelimiterMode /\ pc[s] = "readall" /\ pc'[s] # "readall")
              => IF how'[s] = "found"
                 THEN Find(rbuf, Literal) > 0 /\ ret'[s] = UpToLiteral(rbuf)
                 ELSE ret'[s] = <<>>
      ]_vars

\* C10 (one write per chunk, verbatim): a chunk that a session has taken into
\* an exchange has reached the device exactly once, unchanged; once the
\* exchange has returned, a non-empty reply has been written to that client
\* exactly once and unchanged, and an empty reply has written nothing.
C10_OneWritePerChunk ==
    \A s \in Sessions :
        /\ (data[s] # <<>> /\ pc[s] \in {"readall", "innerclose", "read"})
              => devw[s] = <<data[s]>>
        /\ (data[s] # <<>> /\ pc[s] = "read" /\ via[s] = "")
              => sent[s] = IF ret[s] # <<>> THEN <<ret[s]>> ELSE <<>>

\* The peer's client holds the peer's lock in an exchange that has not returned.
PeerWedged == peer.locked /\ peer.pc = "readall"

\* C11 (cross-bridge independence): no step of one bridge changes anything of
\* the other (its lock, channel, buffers or sessions), and while the peer's
\* exchange has not returned every session step of the first bridge is
\* enabled as its own state alone decides: a chunk is taken and, with the
\* first bridge's lock free, acquires it and starts the exchange; a woken
\* waiter acquires; a running readall reads, times out or fails.
C11_BridgesIndependent ==
    [][/\ (main' = main /\ peer' # peer) => UNCHANGED bridgeVars
       /\ (main' = main /\ bridgeVars' # bridgeVars) => peer' = peer
       /\ PeerWedged =>
            \A s \in GroupSessions :
                /\ (pc[s] = "read" /\ ~locked /\ waiters = <<>>) =>
                      ENABLED (ClientChunk(s) /\ locked' /\ pc'[s] \in InWith)
                /\ (pc[s] = "read" /\ (locked \/ waiters # <<>>)) =>
                      ENABLED (ClientChunk(s) /\ pc'[s] = "waiting")
                /\ (pc[s] = "waiting" /\ s \in woken) => ENABLED WakeUp(s)
                /\ pc[s] = "readall" =>
                      ENABLED (ReadByte(s) \/ ReadTimeout(s) \/ ReadError(s))
      ]_vars

\* Both bridges are in the middle of an exchange at once, each holding its own
\* lock, and the first bridge's session has read a reply byte meanwhile.
C11_BothExchanging ==
    /\ PeerWedged
    /\ \E s \in GroupSessions : pc[s] = "readall" /\ locked /\ reply[s] # <<>>

\* C12 (stop ordering): the step in which stop() closes the listener leaves
\* the serial handle closed as well once stop() is over, and changes no
\* session (none is cancelled).
C12_StopClosesBoth ==
    [][(server = "listening" /\ server' = "closed" /\ main' = main)
          => (chan' = "closed" /\ pc' = pc /\ UNCHANGED lockVars)
      ]_vars

\* C13 (group start): when one bridge fails to start, the start of the other
\* is still attempted, and a bridge that did start keeps running: its
\* listener is not closed because of the other's failure.
C13_GroupStart ==
    /\ server = "failed" =>
          /\ peer.server = "new" => ENABLED PeerStart
          /\ peer.server # "closed"
    /\ peer.server = "failed" =>
          /\ server = "new" => ENABLED Start
          /\ server # "closed"

\* The options of a device string, as written: what lies between its commas
\* after the first.
WrittenOptions(str) ==
    LET parts == Split(str, Comma) IN {parts[i] : i \in 2..Len(parts)}

\* A device string of the form path[,key=value,...] whose baudrate and
\* stopbits values are decimal numbers.
WellFormed(str) ==
    \A o \in WrittenOptions(str) :
        /\ Len(Split(o, Equals)) = 2
        /\ Split(o, Equals)[1] \in {Baudrate, Stopbits} => IsDecimal(Split(o, Equals)[2])

\* C14 (device-string parsing): a well-formed device string constructs; the
\* device path is what precedes the first comma; every stored key was written
\* as an option key=value, a baudrate or stopbits value is stored as the
\* integer written, and any other key's value as the string written.
C14_DeviceStringParsing ==
    /\ (built = "ValueError") => ~WellFormed(device)
    /\ (built = "ok" /\ WellFormed(device)) =>
          /\ SubSeq(device, 1, Len(com_path)) = com_path
          /\ ~Contains(com_path, Comma)
          /\ Len(com_path) = Len(device) \/ device[Len(com_path) + 1] = Comma
          /\ \A o \in WrittenOptions(device) : Split(o, Equals)[1] \in DOMAIN extra_options
          /\ \A k \in DOMAIN extra_options :
                IF k \in {Baudrate, Stopbits}
                THEN /\ extra_options[k].type = "int"
                     /\ \E v \in OptionValues :
                          /\ (k \o <<Equals>> \o v) \in WrittenOptions(device)
                          /\ IsDecimal(v)
                          /\ extra_options[k].num = ParseInt(v)
                ELSE /\ extra_options[k].type = "str"
                     /\ (k \o <<Equals>> \o extra_options[k].text) \in WrittenOptions(device)

\* C15 (single serial handle): self.wserial is the only handle there is: no
\* handle is left open when self.wserial is rebound (none is orphaned), and
\* while start_serial is between closing the old handle and opening the new
\* one no handle is open; a send_to_serial on a closed channel opens nothing.
C15_SingleHandle ==
    /\ leaked = 0
    /\ server = "restarting" => chan # "open"

\* start_serial is replacing the handle of a server that has clients: the
\* old handle is closed, the new one not yet open.
C15_Replacing ==
    /\ server = "restarting"
    /\ chan = "closed"
    /\ \E s \in GroupSessions : pc[s] \in {"read", "innerclose", "waiting"}

\* C16 (arbiter liveness): with fair session steps, every session waiting in
\* acquire() is eventually inside its with block; and the lock is granted in
\* arrival order: a waiter is granted only at the head of the queue, and a
\* session that has just asked is granted at once only when nobody waits.
C16_ArbiterLiveness ==
    /\ \A s \in Sessions : (pc[s] = "waiting") ~> (pc[s] \in InWith)
    /\ [][\A s \in Sessions :
            /\ (pc[s] = "waiting" /\ pc'[s] \in InWith) => s = Head(waiters)
            /\ (pc[s] = "read" /\ pc'[s] \in InWith) => waiters = <<>>
         ]_vars

\* Two sessions wait while a third holds the lock; the first of them has
\* been woken by a release and is about to be granted the lock.
C16_WaiterWoken ==
    /\ Len(waiters) = 2
    /\ Head(waiters) \in woken
    /\ \A i \in 1..2 : pc[waiters[i]] = "waiting"

\* C17 (exchange termination, idle-timeout mode): a running exchange returns
\* only at a read attempt that found no byte within the timeout (or failed);
\* as long as it has not returned, the lock stays held and no other session
\* of the bridge enters its with block: the others wait.
C17_ExchangeHoldsLock ==
    [][\A s \in Sessions :
          /\ (~DelimiterMode /\ pc[s] = "readall" /\ pc'[s] # "readall")
                => (rbuf = <<>> \/ chan # "open")
          /\ (~DelimiterMode /\ pc[s] = "readall" /\ pc'[s] = "readall")
                => /\ locked'
                   /\ \A u \in Sessions \ {s} :
                        pc[u] \notin InWith => pc'[u] \notin InWith
      ]_vars

\* C18 (no cancellation, late replies): the step in which a client drops its
\* connection during its exchange changes no session's position, not the
\* lock and not the serial buffer, and the exchange of a client that is gone
\* still returns only at a timed-out (or failed) read attempt; starting an
\* exchange discards nothing from the serial read buffer, bytes leave the
\* buffer only into the reply of a session in readall, oldest first, and an
\* exchange that times out returns exactly what it read.
C18_NoCancelNoFlush ==
    [][/\ \A s \in Sessions :
            /\ (gone'[s] /\ ~gone[s]) => UNCHANGED <<pc, lockVars, rbuf, reply>>
            /\ (gone[s] /\ pc[s] = "readall" /\ pc'[s] # "readall")
                  => (rbuf = <<>> \/ chan # "open")
            /\ (pc[s] # "readall" /\ pc'[s] = "readall") => rbuf' = rbuf
            /\ (pc[s] = "readall" /\ pc'[s] # "readall" /\ how'[s] = "timeout")
                  => ret'[s] = reply[s]
       /\ rbuf' # rbuf =>
            \/ \E b \in 0..255 : rbuf' = Append(rbuf, b)
            \/ \E s \in Sessions :
                  /\ pc[s] = "readall"
                  /\ reply'[s] = Append(reply[s], Head(rbuf))
                  /\ rbuf' = Tail(rbuf)
      ]_vars

\* A client has been sent a reply that starts with a byte the device emitted
\* while no exchange was running, after another client's exchange had timed
\* out with an empty reply: it received the answer to that client's request.
C18_LateReplyDelivered ==
    \E s, u \in GroupSessions :
        /\ s # u
        /\ pc[u] = "read" /\ how[u] = "timeout" /\ ret[u] = <<>>
        /\ sent[s] # <<>>
        /\ Head(sent[s])[1] = LateByte(0)

\* C19 (no lock leak): whenever the lock is held some session is inside its
\* 'async with' block, so once every session that acquired it has left the
\* block the lock is free; and a free lock with sessions queued has woken the
\* first of them, so the lock can be acquired again.
C19_NoLockLeak ==
    /\ locked => \E s \in Sessions : pc[s] \in InWith
    /\ (~locked /\ waiters # <<>>) => Head(waiters) \in woken

\* A session has left its with block by an exception (closing its client
\* socket failed after a failed exchange); no session is inside the block and
\* the lock is free while another session is connected.
C19_FreeAfterError ==
    /\ ~locked
    /\ \A s \in Sessions : pc[s] \notin InWith
    /\ \E s, u \in Sessions :
          /\ pc[s] = "handler" /\ via[s] = "exch"
          /\ pc[u] = "read"

====
